---- MODULE Spec2Model ----
(***************************************************************************)
(* Model of example/src/App.tsx: the hand-landmark frame processor, the    *)
(* two JS callbacks it hands its results to, and the dwell timer.          *)
(*                                                                         *)
(* Scores (presence, handedness) are fixed-point hundredths: 0.2 is 20,    *)
(* 0.5 is 50.  Timestamps are milliseconds as read from Date.now().        *)
(* A typed array / object with integer keys is a function on 0..n-1, as    *)
(* in JavaScript; a JavaScript Array is a TLA+ sequence (1..n).            *)
(***************************************************************************)
EXTENDS Integers, Sequences, FiniteSets, TLC

\* ---------------------------------------------------------------- bounds
MaxFrames == 5      \* frames the camera delivers in one run
MaxPending == 3     \* runOnJS calls waiting for the JS thread
MaxLen == 4         \* longest short landmark output tried (besides 63)

\* ------------------------------------------------------- program constants
PresenceThreshold == 20     \* handPresence >= 0.2
HandednessThreshold == 50   \* handedness > 0.5
DwellMs == 1000             \* now - handDetectedStart.current > 1000
LandmarkValues == 63        \* output_0: float32[1, 63]
Stride == 3                 \* i += 3

DETECTING == "Detecting..."
NO_HAND == "No Hand Detected"
RIGHT_HAND == "Right Hand"
LEFT_HAND == "Left Hand"

\* handDetectedStart.current is number | null: null is <<>>, t is <<t>>.
NULL == <<>>

\* ------------------------------------------------------------ JS values
\* What result[k] can be: undefined, or a typed array (function on 0..n-1).
Undefined == [tag |-> "undefined", data |-> <<>>]
Scalar(v) == [tag |-> "array", data |-> [i \in 0 .. 0 |-> v]]
Empty == [tag |-> "array", data |-> <<>>]

\* A landmark output whose k-th value identifies its position: 100 + k.
Coord(i) == 100 + i
Landmarks(n) == [tag |-> "array", data |-> [i \in 0 .. n - 1 |-> Coord(i)]]

\* ------------------------------------------------------------- inputs
PresenceOutputs == {Undefined, Empty} \cup
    {Scalar(v) : v \in {PresenceThreshold - 1, PresenceThreshold}}
HandednessOutputs == {Undefined} \cup
    {Scalar(v) : v \in {HandednessThreshold, HandednessThreshold + 1}}
LandmarkOutputs == {Undefined, Landmarks(0), Landmarks(LandmarkValues)}
\* What runSync returns, as <<result[0], result[1], result[2]>>: with a hand
\* present every handedness and landmark output, without one every presence
\* output that is not a hand, with the landmark output there or missing.
Results ==
    {<<l, Scalar(PresenceThreshold), h>> :
        l \in LandmarkOutputs, h \in HandednessOutputs}
    \cup {<<l, p, Scalar(HandednessThreshold + 1)>> :
        l \in {Undefined, Landmarks(LandmarkValues)},
        p \in PresenceOutputs \ {Scalar(PresenceThreshold)}}
\* Landmark outputs for the conversion on its own: every typed array of at
\* most MaxLen values over CoordValues, and the 63-value output.
CoordValues == {0, 112, 224}
FlatInputs ==
    {[tag |-> "array", data |-> f] :
        f \in UNION {[0 .. n - 1 -> CoordValues] : n \in 0 .. MaxLen}}
    \cup {Landmarks(LandmarkValues)}
\* Date.now() between two frames advances by one of these.
Deltas == {0, DwellMs, DwellMs + 1}

VARIABLES
    modelState,         \* model.state of useTensorflowModel
    handDetectedStart,  \* handDetectedStart.current
    photoLogged,        \* photoLogged.current
    handednessLabel,    \* React state
    landmarkPoints,     \* React state
    pending,            \* runOnJS calls not yet run on the JS thread
    clock,              \* last value read from Date.now()
    frameNo,            \* frames delivered so far
    lastStep,           \* history: the step just taken
    lastFrame,          \* history: inputs and outcome of the frame just run
    episode,            \* history: the current presence episode
    fired,              \* history: dwell triggers fired so far
    labelFrom,          \* history: frame whose label the UI shows
    pointsFrom          \* history: frame whose points the UI shows

vars == <<modelState, handDetectedStart, photoLogged, handednessLabel,
          landmarkPoints, pending, clock, frameNo, lastStep, lastFrame,
          episode, fired, labelFrom, pointsFrom>>

\* ------------------------------------------------------- pure functions
\* Variant: a model still loading counts as a model.
actualModelUnlessError(state) == state # "error"

\* actualModel = model.state === 'loaded' ? model.model : undefined
actualModel(state) == state = "loaded"

\* Variant: a missing value defaults to 1 (100 hundredths).
FirstOrOne(t) ==
    IF t.tag = "undefined" THEN 100
    ELSE IF 0 \in DOMAIN t.data THEN t.data[0]
    ELSE 100

\* result[k]?.[0] ?? 0
FirstOrZero(t) ==
    IF t.tag = "undefined" THEN 0
    ELSE IF 0 \in DOMAIN t.data THEN t.data[0]
    ELSE 0

\* Variant: any positive presence counts as a hand.
HandPresentAny(handPresence) == handPresence > 0

\* handPresence >= 0.2
HandPresent(handPresence) == handPresence >= PresenceThreshold

\* Variant: the boundary 0.5 counts as right.
HandLabelInclusive(handedness) ==
    IF handedness >= HandednessThreshold THEN RIGHT_HAND ELSE LEFT_HAND

\* handedness > 0.5 ? 'Right Hand' : 'Left Hand'
HandLabel(handedness) ==
    IF handedness > HandednessThreshold THEN RIGHT_HAND ELSE LEFT_HAND

\* Variant: the trigger fires at exactly 1000ms.
DwellTimerInclusive(start, logged, now) ==
    IF start = NULL
    THEN [start |-> <<now>>, logged |-> logged]
    ELSE IF ~logged /\ now - start[1] >= DwellMs
         THEN [start |-> start, logged |-> TRUE]
         ELSE [start |-> start, logged |-> logged]

\* Variant: the timer is tested for falsiness (!handDetectedStart.current),
\* so a start time of 0 counts as not started.
DwellTimerFalsy(start, logged, now) ==
    IF start = NULL \/ start = <<0>>
    THEN [start |-> <<now>>, logged |-> logged]
    ELSE IF ~logged /\ now - start[1] > DwellMs
         THEN [start |-> start, logged |-> TRUE]
         ELSE [start |-> start, logged |-> logged]

\* The timer logic of the present branch; returns the two refs.
DwellTimer(start, logged, now) ==
    IF start = NULL
    THEN [start |-> <<now>>, logged |-> logged]
    ELSE IF ~logged /\ now - start[1] > DwellMs
         THEN [start |-> start, logged |-> TRUE]
         ELSE [start |-> start, logged |-> logged]

\* Variant: the no-hand branch resets the timer but not the flag.
ResetTimerOnly(start, logged) == [start |-> NULL, logged |-> logged]

\* The refs after the no-hand branch.
ResetTimer(start, logged) == [start |-> NULL, logged |-> FALSE]

\* Object.values(o) throws a TypeError when o is undefined or null.
ObjectValuesThrows(o) == o.tag = "undefined"

\* Object.values(o): the values in ascending integer-key order, as an Array.
ObjectValues(o) ==
    [k \in 1 .. Cardinality(DOMAIN o.data) |-> o.data[k - 1]]

\* The loop of updateLandmarks from index i (0-based) on; flat[i] of the
\* code is flat[i + 1] here.
RECURSIVE PointsFrom(_, _)
PointsFrom(flat, i) ==
    IF ~(i < Len(flat)) THEN <<>>
    ELSE IF i + 1 < Len(flat)
         THEN <<[x |-> flat[i + 1], y |-> flat[i + 2]]>>
                  \o PointsFrom(flat, i + Stride)
         ELSE PointsFrom(flat, i + Stride)

\* Variant: a point is pushed only when x, y and z are all there.
RECURSIVE WholeTriplesFrom(_, _)
WholeTriplesFrom(flat, i) ==
    IF ~(i < Len(flat)) THEN <<>>
    ELSE IF i + 2 < Len(flat)
         THEN <<[x |-> flat[i + 1], y |-> flat[i + 2]]>>
                  \o WholeTriplesFrom(flat, i + Stride)
         ELSE WholeTriplesFrom(flat, i + Stride)
updateLandmarksWholeTriples(flat) ==
    IF Len(flat) = 0 THEN <<>> ELSE WholeTriplesFrom(flat, 0)

\* The value updateLandmarks passes to setLandmarkPoints.
updateLandmarks(flat) ==
    IF Len(flat) = 0 THEN <<>> ELSE PointsFrom(flat, 0)

\* ------------------------------------------------------------ hand-off
LabelCall(label, f) ==
    [fn |-> "updateHandedness", label |-> label, flat |-> <<>>, frame |-> f]
LandmarksCall(flat, f) ==
    [fn |-> "updateLandmarks", label |-> "", flat |-> flat, frame |-> f]

\* The calls a frame with a hand hands off, in order.
PresentCalls(label, landmarkObject, f) ==
    IF ObjectValuesThrows(landmarkObject)
    THEN <<LabelCall(label, f)>>
    ELSE <<LabelCall(label, f), LandmarksCall(ObjectValues(landmarkObject), f)>>

\* Variant: the no-hand branch updates the label and leaves the points.
NoHandCallsLabelOnly(f) == <<LabelCall(NO_HAND, f)>>

\* The calls a frame without a hand hands off, in order.
NoHandCalls(f) == <<LabelCall(NO_HAND, f), LandmarksCall(<<>>, f)>>

\* What one processed frame does: the refs after it, the calls it hands off
\* and whether it ended in an exception.  result[1..3] are result[0..2] of
\* the code; f is the number of the frame.
FrameOutcome(start, logged, result, now, f) ==
    LET landmarkObject == result[1]
        handPresence == FirstOrZero(result[2])
        handedness == FirstOrZero(result[3])
    IN  IF HandPresent(handPresence)
        THEN LET refs == DwellTimer(start, logged, now)
             IN  [start |-> refs.start, logged |-> refs.logged,
                  calls |-> PresentCalls(HandLabel(handedness),
                                         landmarkObject, f),
                  threw |-> ObjectValuesThrows(landmarkObject)]
        ELSE LET refs == ResetTimer(start, logged)
             IN  [start |-> refs.start, logged |-> refs.logged,
                  calls |-> NoHandCalls(f), threw |-> FALSE]

\* -------------------------------------------------------------- history
\* The output slot holds a number: the score it holds.
HasScore(t) == t.tag = "array" /\ 0 \in DOMAIN t.data
ScoreAtLeast(t, v) == HasScore(t) /\ t.data[0] >= v
ScoreBelow(t, v) == HasScore(t) /\ t.data[0] < v
NoFrame == [loaded |-> FALSE, result |-> <<Undefined, Undefined, Undefined>>,
            now |-> 0, threw |-> FALSE, before |-> 0]
NoEpisode == [first |-> NULL, fires |-> 0, over |-> FALSE]

\* The episode after a processed frame at `now`, from the raw outputs only.
NextEpisode(ep, present, now, fire) ==
    IF ~present THEN NoEpisode
    ELSE IF ep.first = NULL
         THEN [first |-> <<now>>, fires |-> IF fire THEN 1 ELSE 0,
               over |-> FALSE]
         ELSE [first |-> ep.first,
               fires |-> ep.fires + (IF fire THEN 1 ELSE 0),
               over |-> ep.over \/ now - ep.first[1] > DwellMs]

\* ----------------------------------------------------------------- Init
Init ==
    /\ modelState = "loading"
    /\ handDetectedStart = NULL
    /\ photoLogged = FALSE
    /\ handednessLabel = DETECTING
    /\ landmarkPoints = <<>>
    /\ pending = <<>>
    /\ clock = 0
    /\ frameNo = 0
    /\ lastStep = "init"
    /\ lastFrame = NoFrame
    /\ episode = NoEpisode
    /\ fired = 0
    /\ labelFrom = 0
    /\ pointsFrom = 0

\* -------------------------------------------------------------- actions
\* useTensorflowModel finishes loading.
ModelLoaded ==
    /\ modelState = "loading"
    /\ modelState' = "loaded"
    /\ lastStep' = "loaded"
    /\ UNCHANGED <<handDetectedStart, photoLogged, handednessLabel,
                   landmarkPoints, pending, clock, frameNo, lastFrame,
                   episode, fired, labelFrom, pointsFrom>>

\* useTensorflowModel fails to load.
ModelError ==
    /\ modelState = "loading"
    /\ modelState' = "error"
    /\ lastStep' = "error"
    /\ UNCHANGED <<handDetectedStart, photoLogged, handednessLabel,
                   landmarkPoints, pending, clock, frameNo, lastFrame,
                   episode, fired, labelFrom, pointsFrom>>

\* One call of the frame processor: result is what runSync returns
\* (result[1..3] here are result[0..2] of the code), now is Date.now().
frameProcessor(result, now) ==
    /\ frameNo < MaxFrames
    /\ frameNo' = frameNo + 1
    /\ lastStep' = "frame"
    /\ UNCHANGED <<modelState, handednessLabel, landmarkPoints,
                   labelFrom, pointsFrom>>
    /\ IF ~actualModel(modelState)
       THEN /\ UNCHANGED <<handDetectedStart, photoLogged, pending, clock,
                           episode, fired>>
            /\ lastFrame' = [loaded |-> FALSE, result |-> result,
                             now |-> now, threw |-> FALSE,
                             before |-> Len(pending)]
       ELSE LET out == FrameOutcome(handDetectedStart, photoLogged, result,
                                    now, frameNo + 1)
                fire == ~photoLogged /\ out.logged
                present == ScoreAtLeast(result[2], PresenceThreshold)
            IN  /\ Len(pending) + 2 <= MaxPending
                /\ clock' = now
                /\ handDetectedStart' = out.start
                /\ photoLogged' = out.logged
                /\ pending' = pending \o out.calls
                /\ lastFrame' = [loaded |-> TRUE, result |-> result,
                                 now |-> now, threw |-> out.threw,
                                 before |-> Len(pending)]
                /\ episode' = NextEpisode(episode, present, now, fire)
                /\ fired' = fired + (IF fire THEN 1 ELSE 0)

Frame ==
    \E result \in Results, d \in Deltas :
        frameProcessor(result, clock + d)

\* The JS thread runs the oldest pending runOnJS call.
RunOnJS ==
    /\ pending # <<>>
    /\ LET call == Head(pending)
       IN  /\ pending' = Tail(pending)
           /\ IF call.fn = "updateHandedness"
              THEN /\ handednessLabel' = call.label
                   /\ labelFrom' = call.frame
                   /\ UNCHANGED <<landmarkPoints, pointsFrom>>
              ELSE /\ landmarkPoints' = updateLandmarks(call.flat)
                   /\ pointsFrom' = call.frame
                   /\ UNCHANGED <<handednessLabel, labelFrom>>
    /\ lastStep' = "runOnJS"
    /\ lastFrame' = NoFrame
    /\ UNCHANGED <<modelState, handDetectedStart, photoLogged, clock,
                   frameNo, episode, fired>>

Next == ModelLoaded \/ ModelError \/ Frame \/ RunOnJS

Spec == Init /\ [][Next]_vars

TypeOK ==
    /\ modelState \in {"loading", "loaded", "error"}
    /\ photoLogged \in BOOLEAN
    /\ Len(handDetectedStart) <= 1
    /\ Len(pending) <= MaxPending
    /\ frameNo \in 0 .. MaxFrames

\* ------------------------------------------- the conversion on its own
\* The state right after the first frame of a loaded model, read at time 0,
\* with a hand present and landmark output o: its two calls are pending.
InitLandmarks ==
    \E o \in FlatInputs :
        LET result == <<o, Scalar(PresenceThreshold), Scalar(0)>>
            out == FrameOutcome(NULL, FALSE, result, 0, 1)
        IN  /\ modelState = "loaded"
            /\ handDetectedStart = out.start
            /\ photoLogged = out.logged
            /\ handednessLabel = DETECTING
            /\ landmarkPoints = <<>>
            /\ pending = out.calls
            /\ clock = 0
            /\ frameNo = 1
            /\ lastStep = "frame"
            /\ lastFrame = [loaded |-> TRUE, result |-> result, now |-> 0,
                            threw |-> out.threw, before |-> 0]
            /\ episode = NextEpisode(NoEpisode, TRUE, 0, FALSE)
            /\ fired = 0
            /\ labelFrom = 0
            /\ pointsFrom = 0

NextLandmarks == RunOnJS

SpecLandmarks == InitLandmarks /\ [][NextLandmarks]_vars

\* ------------------------------------------------------------- claims
\* The calls the frame just run handed off.
handedOff == SubSeq(pending, lastFrame.before + 1, Len(pending))
\* The step just taken ran the frame processor with the model loaded.
Processed == lastStep = "frame" /\ modelState = "loaded"
\* The three outputs of the frame just run.
landmarkOutput == lastFrame.result[1]
presenceOutput == lastFrame.result[2]
handednessOutput == lastFrame.result[3]

\* C1: every processed frame whose presence score is below 0.2 hands off the
\* label 'No Hand Detected' and an empty landmark array, and updateLandmarks
\* turns an empty array into the empty point list.
C1_NoHandBelowThreshold ==
    [][/\ (Processed' /\ ScoreBelow(presenceOutput', PresenceThreshold))
            => /\ Len(handedOff') = 2
               /\ handedOff'[1].fn = "updateHandedness"
               /\ handedOff'[1].label = NO_HAND
               /\ handedOff'[2].fn = "updateLandmarks"
               /\ handedOff'[2].flat = <<>>
       /\ (/\ lastStep' = "runOnJS"
           /\ pending # <<>>
           /\ Head(pending).fn = "updateLandmarks"
           /\ Head(pending).flat = <<>>)
            => landmarkPoints' = <<>>]_vars

\* A frame below the threshold is processed while the UI still shows points.
C1_Witness ==
    /\ Processed
    /\ ScoreBelow(presenceOutput, PresenceThreshold)
    /\ presenceOutput.data[0] = PresenceThreshold - 1
    /\ landmarkPoints # <<>>

\* C2: on every processed frame whose presence score is at least 0.2 the
\* label handed off is 'Right Hand' exactly when the handedness score is
\* above 0.5 and 'Left Hand' when it is at most 0.5, whatever the timer, the
\* logged flag and the earlier frames are; it is never 'No Hand Detected'.
C2_LabelFromHandedness ==
    (Processed /\ ScoreAtLeast(presenceOutput, PresenceThreshold))
        => /\ Len(handedOff) >= 1
           /\ handedOff[1].fn = "updateHandedness"
           /\ handedOff[1].label # NO_HAND
           /\ handedOff[1].label \in {RIGHT_HAND, LEFT_HAND}
           /\ HasScore(handednessOutput)
                => (handedOff[1].label = RIGHT_HAND
                        <=> handednessOutput.data[0] > HandednessThreshold)

\* A frame with handedness exactly 0.5 is labelled after the trigger fired.
C2_Witness ==
    /\ Processed
    /\ ScoreAtLeast(presenceOutput, PresenceThreshold)
    /\ HasScore(handednessOutput)
    /\ handednessOutput.data[0] = HandednessThreshold
    /\ handedOff[1].label = LEFT_HAND
    /\ photoLogged

\* C5: a frame that arrives while the model is not loaded changes neither
\* the timer, the logged flag, the pending hand-offs nor the UI state, and
\* until the model is loaded the UI shows 'Detecting...' and no points.
C5_SkipWhenNotLoaded ==
    /\ [](modelState # "loaded"
            => /\ handednessLabel = DETECTING
               /\ landmarkPoints = <<>>
               /\ pending = <<>>
               /\ handDetectedStart = NULL
               /\ ~photoLogged)
    /\ [][(lastStep' = "frame" /\ modelState # "loaded")
            => UNCHANGED <<handDetectedStart, photoLogged, pending,
                           handednessLabel, landmarkPoints>>]_vars

\* A frame with a hand in it arrived while the model was still loading.
C5_Witness ==
    /\ lastStep = "frame"
    /\ modelState = "loading"
    /\ ScoreAtLeast(presenceOutput, PresenceThreshold)
    /\ handednessLabel = DETECTING

\* The outcome of the frame just run, had its outputs been `result`.
OutcomeWith(result) ==
    FrameOutcome(handDetectedStart, photoLogged, result, lastFrame'.now,
                 frameNo')

\* C6: a frame whose presence output is missing is processed exactly as one
\* with presence 0 (timer and flag reset, 'No Hand Detected', points
\* cleared), and a frame with presence at least 0.2 whose handedness output
\* is missing exactly as one with handedness 0 ('Left Hand').
C6_MissingScoreIsZero ==
    [][/\ (Processed' /\ ~HasScore(presenceOutput'))
            => LET zero == OutcomeWith(<<landmarkOutput', Scalar(0),
                                         handednessOutput'>>)
               IN  /\ handDetectedStart' = NULL
                   /\ ~photoLogged'
                   /\ ~lastFrame'.threw
                   /\ handedOff' = <<LabelCall(NO_HAND, frameNo'),
                                     LandmarksCall(<<>>, frameNo')>>
                   /\ handDetectedStart' = zero.start
                   /\ photoLogged' = zero.logged
                   /\ handedOff' = zero.calls
       /\ (/\ Processed'
           /\ ScoreAtLeast(presenceOutput', PresenceThreshold)
           /\ ~HasScore(handednessOutput'))
            => LET zero == OutcomeWith(<<landmarkOutput', presenceOutput',
                                         Scalar(0)>>)
               IN  /\ handedOff'[1] = LabelCall(LEFT_HAND, frameNo')
                   /\ handDetectedStart' = zero.start
                   /\ photoLogged' = zero.logged
                   /\ handedOff' = zero.calls]_vars

\* A frame without a presence output ends an episode whose trigger fired.
C6_Witness ==
    /\ Processed
    /\ ~HasScore(presenceOutput)
    /\ fired >= 1
    /\ handDetectedStart = NULL
    /\ handedOff[1].label = NO_HAND

\* The landmark output is missing or holds no values.
Malformed(o) == o.tag = "undefined" \/ DOMAIN o.data = {}

\* C7: a frame with presence at least 0.2 whose landmark output is missing
\* or empty is processed without failure, and the point list it hands off
\* is the empty list.
C7_MalformedLandmarksEmpty ==
    (/\ Processed
     /\ ScoreAtLeast(presenceOutput, PresenceThreshold)
     /\ Malformed(landmarkOutput))
        => /\ ~lastFrame.threw
           /\ Len(handedOff) = 2
           /\ handedOff[2].fn = "updateLandmarks"
           /\ updateLandmarks(handedOff[2].flat) = <<>>

\* A frame with a hand whose landmark output is missing: Object.values
\* throws after the label was handed off.
C7_Witness ==
    /\ Processed
    /\ ScoreAtLeast(presenceOutput, PresenceThreshold)
    /\ landmarkOutput = Undefined
    /\ lastFrame.threw
    /\ Len(handedOff) = 1

\* C3: within one presence episode (consecutive processed frames with
\* presence at least 0.2) the dwell trigger has fired exactly once if some
\* frame of the episode came more than 1000ms after its first frame and has
\* not fired otherwise; a processed frame without presence at least 0.2
\* leaves handDetectedStart null and photoLogged false.
C3_DwellTriggerOncePerEpisode ==
    /\ episode.fires <= 1
    /\ episode.over <=> episode.fires = 1
    /\ photoLogged <=> episode.fires = 1
    /\ (Processed /\ ~ScoreAtLeast(presenceOutput, PresenceThreshold))
        => /\ handDetectedStart = NULL
           /\ ~photoLogged
           /\ episode = NoEpisode

\* The trigger fired in one episode, was reset, and fired again in a later
\* one.
C3_Witness ==
    /\ fired = 2
    /\ episode.fires = 1
    /\ photoLogged

\* The points the claim names for a flat array: one per index i in
\* {0, 3, 6, ...} with i + 1 < n, point k taking values 3k and 3k + 1
\* (0-based), that is flat[3k + 1] and flat[3k + 2] of the sequence.
ClaimedIndices(n) == {i \in 0 .. n - 1 : i % 3 = 0 /\ i + 1 < n}
ClaimedPoints(flat) ==
    [k \in 1 .. Cardinality(ClaimedIndices(Len(flat))) |->
        [x |-> flat[3 * (k - 1) + 1], y |-> flat[3 * (k - 1) + 2]]]

\* C4: updateLandmarks turns a flat array of n values into one point per
\* index i in {0, 3, 6, ...} with i + 1 < n, in order, with x = value[i] and
\* y = value[i + 1] and the third value dropped; 63 values give 21 points.
C4_FlattenLandmarks ==
    [][(/\ lastStep' = "runOnJS"
        /\ pending # <<>>
        /\ Head(pending).fn = "updateLandmarks")
        => LET flat == Head(pending).flat
           IN  /\ landmarkPoints' = ClaimedPoints(flat)
               /\ Len(flat) = LandmarkValues => Len(landmarkPoints') = 21
               /\ \A k \in 1 .. Len(landmarkPoints') :
                    DOMAIN landmarkPoints'[k] = {"x", "y"}]_vars

\* The 63-value output has been turned into 21 points.
C4_Witness ==
    /\ lastStep = "runOnJS"
    /\ pointsFrom = 1
    /\ Len(landmarkPoints) = 21
    /\ landmarkPoints[1] = [x |-> Coord(0), y |-> Coord(1)]
    /\ landmarkPoints[21] = [x |-> Coord(60), y |-> Coord(61)]

\* C8: on a processed frame with presence at least 0.2 handDetectedStart
\* becomes the frame's timestamp if it was null and is left unchanged
\* otherwise, fired or not; it is always the timestamp of the first frame of
\* the current episode.
C8_TimerStartedOncePerEpisode ==
    /\ [](handDetectedStart = episode.first)
    /\ [][(Processed' /\ ScoreAtLeast(presenceOutput', PresenceThreshold))
            => /\ handDetectedStart = NULL
                    => handDetectedStart' = <<lastFrame'.now>>
               /\ handDetectedStart # NULL
                    => handDetectedStart' = handDetectedStart]_vars

\* A later frame of an episode, after the trigger fired, with the timer
\* still at the time of the first frame.
C8_Witness ==
    /\ Processed
    /\ ScoreAtLeast(presenceOutput, PresenceThreshold)
    /\ photoLogged
    /\ handDetectedStart # NULL
    /\ lastFrame.now > handDetectedStart[1] + DwellMs + 1

\* C9: photoLogged implies handDetectedStart is non-null, and the two are
\* only ever cleared together.
C9_LoggedImpliesStarted ==
    /\ [](photoLogged => handDetectedStart # NULL)
    /\ [][/\ (handDetectedStart # NULL /\ handDetectedStart' = NULL)
                => ~photoLogged'
          /\ (photoLogged /\ ~photoLogged')
                => handDetectedStart' = NULL]_vars

\* The timer and the flag have been cleared after the trigger had fired.
C9_Witness ==
    /\ Processed
    /\ fired >= 1
    /\ handDetectedStart = NULL
    /\ ~photoLogged

\* C10 as stated: in every reachable UI state the label and the point list
\* come from the same frame, and the label 'No Hand Detected' comes with an
\* empty point list.
C10_UiAlwaysConsistent ==
    /\ labelFrom = pointsFrom
    /\ handednessLabel = NO_HAND => landmarkPoints = <<>>

\* C10 amended: the label and the points of a frame arrive as two calls, so
\* between them the UI mixes two frames; once no call is pending, a label
\* 'No Hand Detected' comes with an empty point list of the same frame.
C10_NoHandConsistentWhenDrained ==
    (pending = <<>> /\ handednessLabel = NO_HAND)
        => /\ landmarkPoints = <<>>
           /\ labelFrom = pointsFrom

\* All calls have run, the UI shows 'No Hand Detected' for a frame that
\* followed one whose points were shown.
C10_Witness ==
    /\ pending = <<>>
    /\ handednessLabel = NO_HAND
    /\ lastStep = "runOnJS"
    /\ labelFrom >= 2
    /\ fired >= 1
====
